---- MODULE Spec2Model ----
(***************************************************************************)
(* Model of the authenticated API client of the WellNessAI front-end       *)
(* (frontend/utils/api.ts): the axios response interceptor that refreshes  *)
(* the session on 401, the queue of requests deferred while a refresh is   *)
(* in flight, and the local auth-state store (utils/auth.ts) it clears.    *)
(*                                                                         *)
(* Execution is the browser's single-threaded event loop: one action is    *)
(* one run of a callback up to its next suspension point, followed by the  *)
(* promise reactions (microtasks) it made runnable.                         *)
(***************************************************************************)
EXTENDS Integers, Sequences, FiniteSets, TLC

\* ---------------------------------------------------------------- bounds
\* number of original requests the callers issue through apiClient
NumReqs == 3

Reqs == 1..NumReqs

\* ------------------------------------------------------- program constants
\* api.ts:102  response.status === 200
StatusOK == 200
\* api.ts:64   error.response?.status === 401
StatusUnauthorized == 401

\* auth.ts:3-4
AUTH_TOKEN_KEY == "health_companion_auth"
AUTH_USER_KEY == "health_companion_user"
\* api.ts:55, 57, 59
USER_INFO_KEY == "user_info"
AUTH_EXPIRED_KEY == "authExpired"
AuthRoute == "/auth"

\* URLs are sequences of path segments: "/auth/refresh" is <<"auth","refresh">>
RefreshUrl == <<"auth", "refresh">>
MeUrl == <<"auth", "me">>
ChatUrl == <<"chat">>

\* URLs of the requests callers issue (spec section 6); the refresh endpoint is
\* called by the interceptor only
CallerUrls == {ChatUrl, MeUrl}

\* statuses with which an original request can fail: 401, another HTTP error,
\* and 0 for an error without a response (error.response undefined)
ErrorStatuses == {StatusUnauthorized, 500, 0}

\* outcomes of the refresh call: axios resolves every 2xx (default
\* validateStatus) and rejects everything else
RefreshResolved == {StatusOK, 204}
RefreshRejected == {StatusUnauthorized, 500, 0}

\* Strings held in storage are sequences of tokens, so that serialising and
\* parsing are computed.  Null is the absent item (getItem returns null); no
\* stored string equals it.
Null == <<"null">>
Authenticated == <<"authenticated">>
TrueString == <<"true">>

\* AuthUser records <<email, fullName, createdAt>> (auth.ts:6-10)
User == <<"ann@example.org", "Ann", "2024-01-01">>
User2 == <<"bob@example.org", "Bob", "2024-02-02">>
Users == {User, User2}

VARIABLES
    hasWindow,      \* typeof window !== 'undefined'
    localStorage,   \* key -> value or Null
    sessionStorage, \* key -> value or Null
    href,           \* window.location.href
    isRefreshing,   \* api.ts:22
    failedQueue,    \* api.ts:23, entries named by the request that pushed them
    st,             \* per request: position of its promise chain
    url,            \* per request: config.url
    retry,          \* per request: config._retry
    resp,           \* per request: status of the latest response, -1 if none
    err,            \* per request: error the caller was rejected with
    replays,        \* per request: times the interceptor re-issued it
    refreshesBy,    \* per request: refresh calls its handler issued
    refreshResp,    \* per request: answer to the refresh call its handler
                    \* issued, -1 while there is none
    settled,        \* entries settled by the latest processQueue, in order
    lastCall,       \* the latest call that writes the auth store
    hEnv,           \* sessionHash: what window.crypto is in a browser
    hId,            \* sessionHash: per call, the identifier passed
    hPc,            \* sessionHash: per call, position of the async function
    hPath,          \* sessionHash: per call, the path that produced the token
    hTok,           \* sessionHash: per call, the token returned
    messages,       \* Home: the chat entries shown
    inputValue,     \* Home: text of the message input
    isLoading,      \* Home: a send is awaiting its answer
    error,          \* Home: text of the inline notice, or NoNotice
    isRecording,    \* Home: the recorder button shows "stop"
    mediaRecorderRef, \* Home: the recording the ref points to, 0 for null
    hasMedia,       \* Home: navigator.mediaDevices exists
    sends,          \* Home: the POST /chat requests issued, in order, each
                    \* with its text, its state and the data answered
    voice,          \* Home: the recording, its position, the isLoading its
                    \* handlers closed over and how the last one ended
    profile,        \* Home: the health profile
    showProfile,    \* Home: the profile form is open
    healthProfile,  \* localStorage item 'healthProfile'
    isOpen,         \* SearchChatsModal: prop isOpen
    customerId,     \* SearchChatsModal: prop customerId
    searchTerm,     \* SearchChatsModal: text of the search box
    sessions,       \* SearchChatsModal: the sessions listed
    loading,        \* SearchChatsModal: loading flag
    fetchError,     \* SearchChatsModal: its state error
    fetchingRef,    \* SearchChatsModal: fetchingRef.current
    fetches         \* SearchChatsModal: the GET .../sessions requests issued

vars == <<hasWindow, localStorage, sessionStorage, href, isRefreshing,
          failedQueue, st, url, retry, resp, err, replays, refreshesBy,
          refreshResp, settled, lastCall, hEnv, hId, hPc, hPath, hTok,
          messages, inputValue, isLoading, error, isRecording,
          mediaRecorderRef, hasMedia, sends, voice, profile, showProfile,
          healthProfile, isOpen, customerId, searchTerm, sessions, loading,
          fetchError, fetchingRef, fetches>>

store == <<hasWindow, localStorage, sessionStorage, href, lastCall>>

hashVars == <<hEnv, hId, hPc, hPath, hTok>>

\* the chat of the Home page
chatVars == <<messages, inputValue, isLoading, error, isRecording,
              mediaRecorderRef, hasMedia, sends, voice>>

\* the health profile of the Home page
profileVars == <<profile, showProfile, healthProfile>>

\* SearchChatsModal
modalVars == <<isOpen, customerId, searchTerm, sessions, loading, fetchError,
               fetchingRef, fetches>>

uiVars == <<chatVars, profileVars, modalVars>>

\* everything the API client and the auth store own
clientVars == <<hasWindow, localStorage, sessionStorage, href, isRefreshing,
                failedQueue, st, url, retry, resp, err, replays, refreshesBy,
                refreshResp, settled, lastCall>>

\* --------------------------------------------------------------- storage
LocalKeys == {AUTH_TOKEN_KEY, AUTH_USER_KEY, USER_INFO_KEY}
SessionKeys == {AUTH_EXPIRED_KEY}

EmptyLocal == [k \in LocalKeys |-> Null]
EmptySession == [k \in SessionKeys |-> Null]

setItem(storage, k, v) == [storage EXCEPT ![k] = v]
removeItem(storage, k) == [storage EXCEPT ![k] = Null]
getItem(storage, k) == storage[k]

\* JSON.stringify of an AuthUser (auth.ts:15)
JSONstringify(user) ==
    <<"{", "email", user[1], "fullName", user[2], "createdAt", user[3], "}">>

\* JSON.parse(userStr) as AuthUser; Null when it throws (auth.ts:33-37)
JSONparse(str) ==
    IF /\ Len(str) = 8
       /\ str[1] = "{" /\ str[8] = "}"
       /\ str[2] = "email" /\ str[4] = "fullName" /\ str[6] = "createdAt"
    THEN <<str[3], str[5], str[7]>>
    ELSE Null

\* variant: no environment check
setAuth_NoGuard(win, ls, user) ==
    setItem(setItem(ls, AUTH_TOKEN_KEY, Authenticated),
            AUTH_USER_KEY, JSONstringify(user))

\* variant: a cached user record is not overwritten
setAuth_KeepsFirstUser(win, ls, user) ==
    IF ~win THEN ls
    ELSE IF getItem(ls, AUTH_USER_KEY) # Null
         THEN setItem(ls, AUTH_TOKEN_KEY, Authenticated)
         ELSE setItem(setItem(ls, AUTH_TOKEN_KEY, Authenticated),
                      AUTH_USER_KEY, JSONstringify(user))

\* auth.ts:12-16
setAuth(win, ls, user) ==
    IF ~win THEN ls
    ELSE setItem(setItem(ls, AUTH_TOKEN_KEY, Authenticated),
                 AUTH_USER_KEY, JSONstringify(user))

\* variant: the user record is left behind
clearAuth_TokenOnly(win, ls) ==
    IF ~win THEN ls
    ELSE removeItem(ls, AUTH_TOKEN_KEY)

\* auth.ts:18-22
clearAuth(win, ls) ==
    IF ~win THEN ls
    ELSE removeItem(removeItem(ls, AUTH_TOKEN_KEY), AUTH_USER_KEY)

\* auth.ts:24-27
isAuthenticated(win, ls) ==
    IF ~win THEN FALSE
    ELSE getItem(ls, AUTH_TOKEN_KEY) = Authenticated

\* auth.ts:29-38
getAuthUser(win, ls) ==
    IF ~win THEN Null
    ELSE LET userStr == getItem(ls, AUTH_USER_KEY) IN
         IF userStr = Null \/ userStr = <<>> THEN Null
         ELSE JSONparse(userStr)

\* the browser state handleUnauthorized touches
Win(ls, ss, h) == [ls |-> ls, ss |-> ss, href |-> h]
CurWin == Win(localStorage, sessionStorage, href)

\* variant: redirect only, storage untouched (the catch block of the earlier
\* version of the client)
handleUnauthorized_RedirectOnly(win, w) ==
    IF win THEN [w EXCEPT !.href = AuthRoute] ELSE w

\* api.ts:50-61
handleUnauthorized(win, w) ==
    IF win
    THEN [ls   |-> removeItem(clearAuth(win, w.ls), USER_INFO_KEY),
          ss   |-> setItem(w.ss, AUTH_EXPIRED_KEY, TrueString),
          href |-> AuthRoute]
    ELSE w

SetWin(w) ==
    /\ localStorage' = w.ls
    /\ sessionStorage' = w.ss
    /\ href' = w.href
    /\ hasWindow' = hasWindow
    /\ lastCall' = [op |-> "handleUnauthorized", user |-> Null]

\* ------------------------------------------------------------------ URLs
\* String.prototype.includes on segment sequences
Includes(u, pat) ==
    \E i \in 0..(Len(u) - Len(pat)) :
        \A j \in 1..Len(pat) : u[i + j] = pat[j]

\* variant: only the refresh endpoint is recognised
IsAuthEndpoint_RefreshOnly(u) == Includes(u, RefreshUrl)

\* api.ts:69
IsAuthEndpoint(u) == Includes(u, RefreshUrl) \/ Includes(u, MeUrl)

\* ---------------------------------------------------------------- errors
NoError == [kind |-> "none", req |-> 0, try |-> 0, status |-> 0]
\* the AxiosError of request r's latest attempt
ResponseError(r, s) == [kind |-> "response", req |-> r, try |-> replays[r], status |-> s]
\* the error thrown by the refresh call that r's handler awaits
RefreshError(r, s) == [kind |-> "refresh", req |-> r, try |-> 0, status |-> s]

\* ----------------------------------------------------------------- queue
\* api.ts:28-38: forEach settles the entries front to back; the result is the
\* order in which the entries were settled
RECURSIVE forEachFrom(_, _)
forEachFrom(q, i) ==
    IF i > Len(q) THEN <<>> ELSE <<q[i]>> \o forEachFrom(q, i + 1)

\* variant: entries settled back to front
RECURSIVE forEachBack(_, _)
forEachBack(q, i) ==
    IF i < 1 THEN <<>> ELSE <<q[i]>> \o forEachBack(q, i - 1)

processQueue_Reversed(q) == forEachBack(q, Len(q))

processQueue(q) == forEachFrom(q, 1)

InSeq(x, s) == \E i \in 1..Len(s) : s[i] = x

\* ------------------------------------------------------------------ Init
NoCall == [op |-> "none", user |-> Null]

\* no call of hashSessionId has been made
HashIdle ==
    /\ hEnv = "subtle"
    /\ hId = <<>>
    /\ hPc = <<>>
    /\ hPath = <<>>
    /\ hTok = <<>>

\* ------------------------------------------------------- Home, the modal
\* the value undefined of an optional field
Undefined == <<"undefined">>

\* a chat entry (id and timestamp are left out)
ChatEntry(role, content, citations, facts, safety) ==
    [role |-> role, content |-> content, citations |-> citations,
     facts |-> facts, safety |-> safety]

\* the field safety of an entry that has none
NoSafety == [present |-> FALSE, red_flag |-> FALSE]

\* part_002:231-248
initialAssistantMessage ==
    ChatEntry("assistant", "Welcome to your Health Companion",
              Undefined, Undefined, NoSafety)

\* an entry of role user (part_002:342-347)
UserMessage(text) == ChatEntry("user", text, Undefined, Undefined, NoSafety)

\* part_002:386-392
ApologyMessage ==
    ChatEntry("assistant", "something went wrong while retrieving information",
              Undefined, Undefined, NoSafety)

\* the value null of the state error
NoNotice == "null"
\* part_002:382
ChatNotice == "I had trouble connecting to my clinical sources."
\* part_002:401
NoMediaNotice == "Microphone access is not available in this environment."
\* part_002:425
MicNotice == "Could not access the microphone."
\* part_002:453
SttNotice == "Speech recognition did not succeed."

\* POST /chat requests issued in one run
MaxSends == 2

\* the value undefined of profile.age
NoAge == -1

\* part_002:222-229
defaultProfile ==
    [diabetes |-> FALSE, hypertension |-> FALSE, pregnancy |-> FALSE,
     age |-> NoAge, sex |-> "undefined", city |-> ""]

\* JSON.stringify of a boolean
BoolString(b) == IF b THEN "true" ELSE "false"

\* JSON.stringify(profile) as key, value pairs; a field that is undefined
\* is left out (part_002:287)
stringifyProfile(p) ==
    <<"diabetes", BoolString(p.diabetes),
      "hypertension", BoolString(p.hypertension),
      "pregnancy", BoolString(p.pregnancy)>>
    \o (IF p.age = NoAge THEN <<>> ELSE <<"age", ToString(p.age)>>)
    \o (IF p.sex = "undefined" THEN <<>> ELSE <<"sex", p.sex>>)
    \o <<"city", p.city>>

\* Home is mounted with nothing saved, the modal is closed
UiIdle ==
    /\ messages = <<initialAssistantMessage>>
    /\ inputValue = ""
    /\ isLoading = FALSE
    /\ error = NoNotice
    /\ isRecording = FALSE
    /\ mediaRecorderRef = 0
    /\ hasMedia = TRUE
    /\ sends = <<>>
    /\ voice = [pc |-> "idle", seen |-> FALSE, last |-> "none"]
    /\ profile = defaultProfile
    /\ showProfile = FALSE
    /\ healthProfile = stringifyProfile(defaultProfile)
    /\ isOpen = FALSE
    /\ customerId = "null"
    /\ searchTerm = ""
    /\ sessions = <<>>
    /\ loading = FALSE
    /\ fetchError = NoNotice
    /\ fetchingRef = FALSE
    /\ fetches = <<>>

Init ==
    /\ hasWindow = TRUE
    /\ localStorage = setAuth(TRUE, EmptyLocal, User)
    /\ sessionStorage = EmptySession
    /\ href = "/"
    /\ isRefreshing = FALSE
    /\ failedQueue = <<>>
    /\ st = [r \in Reqs |-> "new"]
    /\ url = [r \in Reqs |-> <<>>]
    /\ retry = [r \in Reqs |-> FALSE]
    /\ resp = [r \in Reqs |-> -1]
    /\ err = [r \in Reqs |-> NoError]
    /\ replays = [r \in Reqs |-> 0]
    /\ refreshesBy = [r \in Reqs |-> 0]
    /\ refreshResp = [r \in Reqs |-> -1]
    /\ settled = <<>>
    /\ lastCall = NoCall
    /\ HashIdle
    /\ UiIdle


\* ------------------------------------------------------------- requests
\* apiClient(config) called with an unmarked config (api.ts:13-19; a caller is
\* SearchChatsModal.tsx:47).  Requests are issued in index order.
Send(r, u) ==
    /\ st[r] = "new"
    /\ \A q \in Reqs : q < r => st[q] # "new"
    /\ st' = [st EXCEPT ![r] = "inflight"]
    /\ url' = [url EXCEPT ![r] = u]
    /\ UNCHANGED <<hashVars, uiVars, store, isRefreshing, failedQueue, retry, resp, err,
                   replays, refreshesBy, refreshResp, settled>>

\* api.ts:41-45: a 2xx response is handed to the caller
onFulfilled(r, s) ==
    /\ st[r] = "inflight"
    /\ st' = [st EXCEPT ![r] = "resolved"]
    /\ resp' = [resp EXCEPT ![r] = s]
    /\ UNCHANGED <<hashVars, uiVars, store, isRefreshing, failedQueue, url, retry, err,
                   replays, refreshesBy, refreshResp, settled>>

\* return Promise.reject(e) to r's caller
Reject(r, e) ==
    /\ st' = [st EXCEPT ![r] = "rejected"]
    /\ err' = [err EXCEPT ![r] = e]

\* variant: every error is taken for an expired session
PassThrough_Unauthorized(r, s) ==
    /\ st[r] = "inflight"
    /\ s # StatusUnauthorized
    /\ resp' = [resp EXCEPT ![r] = s]
    /\ SetWin(handleUnauthorized(hasWindow, CurWin))
    /\ Reject(r, ResponseError(r, s))
    /\ UNCHANGED <<hashVars, uiVars, isRefreshing, failedQueue, url, retry,
                   replays, refreshesBy, refreshResp, settled>>

\* api.ts:122: an error that is not a 401 passes through
PassThrough(r, s) ==
    /\ st[r] = "inflight"
    /\ s # StatusUnauthorized
    /\ resp' = [resp EXCEPT ![r] = s]
    /\ Reject(r, ResponseError(r, s))
    /\ UNCHANGED <<hashVars, uiVars, store, isRefreshing, failedQueue, url, retry,
                   replays, refreshesBy, refreshResp, settled>>

\* api.ts:64-72: 401 from /auth/refresh or /auth/me
TerminalEndpoint(r, s) ==
    /\ st[r] = "inflight"
    /\ s = StatusUnauthorized
    /\ IsAuthEndpoint(url[r])
    /\ resp' = [resp EXCEPT ![r] = s]
    /\ SetWin(handleUnauthorized(hasWindow, CurWin))
    /\ Reject(r, ResponseError(r, s))
    /\ UNCHANGED <<hashVars, uiVars, isRefreshing, failedQueue, url, retry,
                   replays, refreshesBy, refreshResp, settled>>

\* api.ts:75-90: 401 while a refresh is pending; the entry waits on the queue
Enqueue(r, s) ==
    /\ st[r] = "inflight"
    /\ s = StatusUnauthorized
    /\ ~IsAuthEndpoint(url[r])
    /\ ~retry[r]
    /\ isRefreshing
    /\ resp' = [resp EXCEPT ![r] = s]
    /\ failedQueue' = Append(failedQueue, r)
    /\ st' = [st EXCEPT ![r] = "queued"]
    /\ UNCHANGED <<hashVars, uiVars, store, isRefreshing, url, retry, err,
                   replays, refreshesBy, refreshResp, settled>>

\* variant: isRefreshing is not raised
StartRefresh_FlagNotSet(r, s) ==
    /\ st[r] = "inflight"
    /\ s = StatusUnauthorized
    /\ ~IsAuthEndpoint(url[r])
    /\ ~retry[r]
    /\ ~isRefreshing
    /\ resp' = [resp EXCEPT ![r] = s]
    /\ retry' = [retry EXCEPT ![r] = TRUE]
    /\ refreshesBy' = [refreshesBy EXCEPT ![r] = @ + 1]
    /\ st' = [st EXCEPT ![r] = "refreshing"]
    /\ UNCHANGED <<hashVars, uiVars, store, isRefreshing, failedQueue, url, err, replays,
                   refreshResp, settled>>

\* variant: the pending refresh is not consulted
StartRefresh_NoQueueCheck(r, s) ==
    /\ st[r] = "inflight"
    /\ s = StatusUnauthorized
    /\ ~IsAuthEndpoint(url[r])
    /\ ~retry[r]
    /\ resp' = [resp EXCEPT ![r] = s]
    /\ retry' = [retry EXCEPT ![r] = TRUE]
    /\ isRefreshing' = TRUE
    /\ refreshesBy' = [refreshesBy EXCEPT ![r] = @ + 1]
    /\ st' = [st EXCEPT ![r] = "refreshing"]
    /\ UNCHANGED <<hashVars, uiVars, store, failedQueue, url, err, replays, refreshResp, settled>>

\* variant: the request is not marked _retry
StartRefresh_NoRetryMark(r, s) ==
    /\ st[r] = "inflight"
    /\ s = StatusUnauthorized
    /\ ~IsAuthEndpoint(url[r])
    /\ ~retry[r]
    /\ ~isRefreshing
    /\ resp' = [resp EXCEPT ![r] = s]
    /\ isRefreshing' = TRUE
    /\ refreshesBy' = [refreshesBy EXCEPT ![r] = @ + 1]
    /\ st' = [st EXCEPT ![r] = "refreshing"]
    /\ UNCHANGED <<hashVars, uiVars, store, failedQueue, url, retry, err, replays,
                   refreshResp, settled>>

\* api.ts:75, 92-100: 401 with no refresh pending; the handler marks the
\* request, raises the flag, posts /auth/refresh and suspends at the await
StartRefresh(r, s) ==
    /\ st[r] = "inflight"
    /\ s = StatusUnauthorized
    /\ ~IsAuthEndpoint(url[r])
    /\ ~retry[r]
    /\ ~isRefreshing
    /\ resp' = [resp EXCEPT ![r] = s]
    /\ retry' = [retry EXCEPT ![r] = TRUE]
    /\ isRefreshing' = TRUE
    /\ refreshesBy' = [refreshesBy EXCEPT ![r] = @ + 1]
    /\ st' = [st EXCEPT ![r] = "refreshing"]
    /\ UNCHANGED <<hashVars, uiVars, store, failedQueue, url, err, replays, refreshResp, settled>>

\* variant: the error is only passed on (the earlier version of the client)
AlreadyRetried_PassThrough(r, s) ==
    /\ st[r] = "inflight"
    /\ s = StatusUnauthorized
    /\ ~IsAuthEndpoint(url[r])
    /\ retry[r]
    /\ resp' = [resp EXCEPT ![r] = s]
    /\ Reject(r, ResponseError(r, s))
    /\ UNCHANGED <<hashVars, uiVars, store, isRefreshing, failedQueue, url, retry,
                   replays, refreshesBy, refreshResp, settled>>

\* api.ts:115-119: 401 for a request already marked _retry
AlreadyRetried(r, s) ==
    /\ st[r] = "inflight"
    /\ s = StatusUnauthorized
    /\ ~IsAuthEndpoint(url[r])
    /\ retry[r]
    /\ resp' = [resp EXCEPT ![r] = s]
    /\ SetWin(handleUnauthorized(hasWindow, CurWin))
    /\ Reject(r, ResponseError(r, s))
    /\ UNCHANGED <<hashVars, uiVars, isRefreshing, failedQueue, url, retry,
                   replays, refreshesBy, refreshResp, settled>>

\* api.ts:46-123: the error handler of the response interceptor
onRejected(r, s) ==
    \/ TerminalEndpoint(r, s)
    \/ Enqueue(r, s)
    \/ StartRefresh(r, s)
    \/ AlreadyRetried(r, s)
    \/ PassThrough(r, s)


\* ---------------------------------------------------------- refresh call
\* the promise chain r's caller holds is suspended in the handler at the await
\* of api.ts:97, i.e. the refresh call r's handler posted is in flight
RefreshInFlight == {r \in Reqs : st[r] = "refreshing"}

\* the refresh call is itself a request of apiClient: when it fails, the error
\* handler runs for it first (api.ts:64-72, 122) and then rejects the await
refreshCallRejected(win, w, s) ==
    IF s = StatusUnauthorized /\ IsAuthEndpoint(RefreshUrl)
    THEN handleUnauthorized(win, w)
    ELSE w

\* variant: the replayed config loses its _retry mark
RefreshOk_DropsRetryMark(r) ==
    /\ st[r] = "refreshing"
    /\ LET order == processQueue(failedQueue) IN
        /\ settled' = order
        /\ failedQueue' = <<>>
        /\ st' = [q \in Reqs |->
                    IF q = r \/ InSeq(q, order) THEN "inflight" ELSE st[q]]
        /\ replays' = [q \in Reqs |->
                    IF q = r \/ InSeq(q, order) THEN replays[q] + 1 ELSE replays[q]]
    /\ isRefreshing' = FALSE
    /\ refreshResp' = [refreshResp EXCEPT ![r] = StatusOK]
    /\ retry' = [retry EXCEPT ![r] = FALSE]
    /\ UNCHANGED <<hashVars, uiVars, store, url, resp, err, refreshesBy>>

\* api.ts:102-106, 112-114, then the continuations of api.ts:81-86:
\* the refresh call answered 200
RefreshOk(r) ==
    /\ st[r] = "refreshing"
    /\ LET order == processQueue(failedQueue) IN
        /\ settled' = order
        /\ failedQueue' = <<>>
        /\ st' = [q \in Reqs |->
                    IF q = r \/ InSeq(q, order) THEN "inflight" ELSE st[q]]
        /\ replays' = [q \in Reqs |->
                    IF q = r \/ InSeq(q, order) THEN replays[q] + 1 ELSE replays[q]]
    /\ isRefreshing' = FALSE
    /\ refreshResp' = [refreshResp EXCEPT ![r] = StatusOK]
    /\ UNCHANGED <<hashVars, uiVars, store, url, retry, resp, err, refreshesBy>>

\* api.ts:102, 112-114, 122: the refresh call resolved with a 2xx status other
\* than 200; the try block ends without a return and the handler rejects
\* with the 401 error it was called with
RefreshOther(r, s) ==
    /\ st[r] = "refreshing"
    /\ s \in RefreshResolved \ {StatusOK}
    /\ isRefreshing' = FALSE
    /\ refreshResp' = [refreshResp EXCEPT ![r] = s]
    /\ Reject(r, ResponseError(r, StatusUnauthorized))
    /\ UNCHANGED <<hashVars, uiVars, store, failedQueue, url, retry, resp, replays,
                   refreshesBy, settled>>

\* variant: the flag is not lowered when the refresh call is rejected
RefreshFailed_NoFinally(r, s) ==
    /\ st[r] = "refreshing"
    /\ s \in RefreshRejected
    /\ LET order == processQueue(failedQueue) IN
        /\ settled' = order
        /\ failedQueue' = <<>>
        /\ st' = [q \in Reqs |->
                    IF q = r \/ InSeq(q, order) THEN "rejected" ELSE st[q]]
        /\ err' = [q \in Reqs |->
                    IF q = r \/ InSeq(q, order) THEN RefreshError(r, s) ELSE err[q]]
    /\ SetWin(handleUnauthorized(hasWindow,
                  refreshCallRejected(hasWindow, CurWin, s)))
    /\ refreshResp' = [refreshResp EXCEPT ![r] = s]
    /\ UNCHANGED <<hashVars, uiVars, isRefreshing, url, retry, resp, replays, refreshesBy>>

\* api.ts:107-114, then the continuations of api.ts:87-89:
\* the refresh call was rejected
RefreshFailed(r, s) ==
    /\ st[r] = "refreshing"
    /\ s \in RefreshRejected
    /\ LET order == processQueue(failedQueue) IN
        /\ settled' = order
        /\ failedQueue' = <<>>
        /\ st' = [q \in Reqs |->
                    IF q = r \/ InSeq(q, order) THEN "rejected" ELSE st[q]]
        /\ err' = [q \in Reqs |->
                    IF q = r \/ InSeq(q, order) THEN RefreshError(r, s) ELSE err[q]]
    /\ SetWin(handleUnauthorized(hasWindow,
                  refreshCallRejected(hasWindow, CurWin, s)))
    /\ isRefreshing' = FALSE
    /\ refreshResp' = [refreshResp EXCEPT ![r] = s]
    /\ UNCHANGED <<hashVars, uiVars, url, retry, resp, replays, refreshesBy>>

\* ------------------------------------------------------------------ Next
\* what can happen to request r
Step(r) ==
    \/ \E u \in CallerUrls : Send(r, u)
    \/ onFulfilled(r, StatusOK)
    \/ \E s \in ErrorStatuses : onRejected(r, s)
    \/ RefreshOk(r)
    \/ \E s \in RefreshResolved : RefreshOther(r, s)
    \/ \E s \in RefreshRejected : RefreshFailed(r, s)

Next == \E r \in Reqs : Step(r)

Spec == Init /\ [][Next]_vars

\* ------------------------------------------------- auth store and client
\* requests issued in the runs that also log in and out
StoreReqs == 2
StoreReqSet == {r \in Reqs : r <= StoreReqs}

\* the module is loaded in a browser or on the server, storage is empty
InitStore ==
    /\ hasWindow \in BOOLEAN
    /\ localStorage = EmptyLocal
    /\ sessionStorage = EmptySession
    /\ href = "/"
    /\ isRefreshing = FALSE
    /\ failedQueue = <<>>
    /\ st = [r \in Reqs |-> "new"]
    /\ url = [r \in Reqs |-> <<>>]
    /\ retry = [r \in Reqs |-> FALSE]
    /\ resp = [r \in Reqs |-> -1]
    /\ err = [r \in Reqs |-> NoError]
    /\ replays = [r \in Reqs |-> 0]
    /\ refreshesBy = [r \in Reqs |-> 0]
    /\ refreshResp = [r \in Reqs |-> -1]
    /\ settled = <<>>
    /\ lastCall = NoCall
    /\ HashIdle
    /\ UiIdle

\* a caller runs setAuth(user) (auth.ts:12-16)
callSetAuth(user) ==
    /\ localStorage' = setAuth(hasWindow, localStorage, user)
    /\ lastCall' = [op |-> "setAuth", user |-> user]
    /\ UNCHANGED <<hashVars, uiVars, hasWindow, sessionStorage, href, isRefreshing,
                   failedQueue, st, url, retry, resp, err, replays,
                   refreshesBy, refreshResp, settled>>

\* a caller runs clearAuth() (auth.ts:18-22)
callClearAuth ==
    /\ localStorage' = clearAuth(hasWindow, localStorage)
    /\ lastCall' = [op |-> "clearAuth", user |-> Null]
    /\ UNCHANGED <<hashVars, uiVars, hasWindow, sessionStorage, href, isRefreshing,
                   failedQueue, st, url, retry, resp, err, replays,
                   refreshesBy, refreshResp, settled>>

NextStore ==
    \/ \E user \in Users : callSetAuth(user)
    \/ callClearAuth
    \/ \E r \in StoreReqSet : Step(r)

SpecStore == InitStore /\ [][NextStore]_vars

\* --------------------------------------------------------- sessionHash
\* Strings are sequences of one-character strings.
\* sessionHash.ts:23, 54
Secret ==
    <<"h", "e", "a", "l", "t", "h", "c", "a", "r", "e", "-", "c",
      "h", "a", "t", "b", "o", "t", "-", "s", "e", "s", "s", "i",
      "o", "n", "-", "h", "a", "s", "h", "-", "v", "1">>

\* canonical UUIDs passed to hashSessionId: the example of the specification,
\* two with the same rolling hash and different first characters, and two
\* with the same rolling hash and the same first eight characters
Uuids == <<
    <<"3", "f", "a", "8", "5", "f", "6", "4", "-", "5", "7", "1",
      "7", "-", "4", "5", "6", "2", "-", "b", "3", "f", "c", "-",
      "2", "c", "9", "6", "3", "f", "6", "6", "a", "f", "a", "6">>,
    <<"d", "4", "6", "a", "5", "d", "5", "f", "-", "6", "d", "6",
      "7", "-", "4", "5", "c", "e", "-", "8", "3", "8", "1", "-",
      "6", "2", "c", "6", "e", "e", "0", "1", "5", "3", "1", "1">>,
    <<"2", "1", "9", "4", "1", "6", "f", "a", "-", "5", "d", "5",
      "3", "-", "4", "1", "5", "5", "-", "8", "0", "5", "9", "-",
      "4", "0", "f", "b", "c", "1", "1", "3", "d", "c", "1", "e">>,
    <<"7", "c", "9", "e", "6", "6", "7", "9", "-", "a", "b", "d",
      "e", "-", "4", "c", "b", "e", "-", "b", "8", "c", "1", "-",
      "d", "a", "3", "3", "6", "b", "9", "6", "2", "9", "8", "f">>,
    <<"7", "c", "9", "e", "6", "6", "7", "9", "-", "c", "c", "2",
      "1", "-", "4", "3", "b", "6", "-", "a", "1", "6", "c", "-",
      "9", "d", "e", "f", "d", "9", "0", "6", "a", "7", "3", "f">>
>>

\* SHA-256 of identifier + Secret for the identifiers of Uuids, as
\* window.crypto.subtle.digest returns it (sessionHash.ts:25-31)
Sha256 == <<
    <<175, 240, 38, 168, 4, 151, 244, 52, 83, 68, 64, 163, 106, 22, 237, 245,
      157, 164, 145, 136, 138, 250, 55, 104, 205, 191, 28, 75, 11, 222, 139, 222>>,
    <<161, 208, 133, 148, 95, 188, 37, 91, 154, 227, 21, 68, 194, 59, 168, 225,
      254, 187, 106, 100, 92, 161, 228, 188, 163, 129, 169, 115, 140, 148, 237, 12>>,
    <<169, 125, 249, 5, 122, 118, 173, 166, 219, 180, 50, 134, 114, 2, 239, 13,
      222, 6, 71, 84, 192, 14, 12, 118, 101, 18, 34, 20, 196, 40, 232, 161>>,
    <<162, 9, 218, 250, 237, 150, 193, 19, 56, 244, 185, 118, 154, 219, 243, 7,
      51, 224, 27, 78, 162, 67, 158, 59, 187, 60, 119, 216, 225, 215, 253, 77>>,
    <<74, 120, 47, 94, 238, 172, 67, 191, 84, 107, 136, 163, 59, 161, 33, 181,
      172, 42, 121, 69, 83, 219, 143, 75, 157, 13, 212, 99, 201, 51, 55, 52>>
>>

\* String.prototype.charCodeAt for the characters that occur
CharCodes ==
    ("0" :> 48) @@ ("1" :> 49) @@ ("2" :> 50) @@ ("3" :> 51) @@ ("4" :> 52)
    @@ ("5" :> 53) @@ ("6" :> 54) @@ ("7" :> 55) @@ ("8" :> 56) @@ ("9" :> 57)
    @@ ("a" :> 97) @@ ("b" :> 98) @@ ("c" :> 99) @@ ("d" :> 100) @@ ("e" :> 101)
    @@ ("f" :> 102) @@ ("g" :> 103) @@ ("h" :> 104) @@ ("i" :> 105) @@ ("j" :> 106)
    @@ ("k" :> 107) @@ ("l" :> 108) @@ ("m" :> 109) @@ ("n" :> 110) @@ ("o" :> 111)
    @@ ("p" :> 112) @@ ("q" :> 113) @@ ("r" :> 114) @@ ("s" :> 115) @@ ("t" :> 116)
    @@ ("u" :> 117) @@ ("v" :> 118) @@ ("w" :> 119) @@ ("x" :> 120) @@ ("y" :> 121)
    @@ ("z" :> 122) @@ ("-" :> 45)

\* the alphabet of btoa
Base64Chars ==
    <<"A", "B", "C", "D", "E", "F", "G", "H", "I", "J", "K", "L", "M",
      "N", "O", "P", "Q", "R", "S", "T", "U", "V", "W", "X", "Y", "Z",
      "a", "b", "c", "d", "e", "f", "g", "h", "i", "j", "k", "l", "m",
      "n", "o", "p", "q", "r", "s", "t", "u", "v", "w", "x", "y", "z",
      "0", "1", "2", "3", "4", "5", "6", "7", "8", "9", "+", "/">>

HexDigits ==
    <<"0", "1", "2", "3", "4", "5", "6", "7", "8", "9", "a", "b", "c", "d", "e", "f">>

IdIndexes == 1..Len(Uuids)

Min(a, b) == IF a < b THEN a ELSE b

\* String.prototype.substring(0, n)
substring(s, n) == SubSeq(s, 1, Min(n, Len(s)))

\* String.prototype.includes for a single character
includes(s, ch) == \E i \in 1..Len(s) : s[i] = ch

\* String.prototype.replace(/ch/g, '')
removeAll(s, ch) == SelectSeq(s, LAMBDA x : x # ch)

\* String.prototype.replace(/from/g, to)
replaceAll(s, from, to) == [i \in 1..Len(s) |-> IF s[i] = from THEN to ELSE s[i]]

\* String.prototype.padStart(n, ch)
padStart(s, n, ch) == [i \in 1..(IF Len(s) < n THEN n - Len(s) ELSE 0) |-> ch] \o s

\* 32-bit integers are pairs <<high, low>> of 16-bit halves of the two's
\* complement bit pattern
Half == 65536
SignBit == 32768
Zero32 == <<0, 0>>

\* a - b, wrapped to 32 bits
Sub32(a, b) ==
    LET low == a[2] - b[2]
        borrow == IF low < 0 THEN 1 ELSE 0
    IN  <<(a[1] - b[1] - borrow) % Half, low % Half>>

\* the values of a 32-bit integer
Words32 == (0..(Half - 1)) \X (0..(Half - 1))

\* hash << 5
Shl5_By4(h) ==
    LET low == h[2] * 16
    IN  <<(h[1] * 16 + low \div Half) % Half, low % Half>>

Shl5(h) ==
    LET low == h[2] * 32
    IN  <<(h[1] * 32 + low \div Half) % Half, low % Half>>

\* a + n for a character code n, wrapped to 32 bits
Add32(a, n) ==
    LET low == a[2] + n
    IN  <<(a[1] + low \div Half) % Half, low % Half>>

\* sessionHash.ts:58-60: hash = ((hash << 5) - hash) + char; hash = hash & hash
hashStep[hash \in Words32, ch \in DOMAIN CharCodes] ==
    Add32(Sub32(Shl5(hash), hash), CharCodes[ch])

\* sessionHash.ts:53: let hash = 0
hashSeed == Zero32

\* the loop of sessionHash.ts:57-61 over the characters of str, as a function
\* of the value hash holds when the loop is entered: the characters are taken
\* left to right, the first half of str before the second
RECURSIVE hashLoop(_)
hashLoop(str) ==
    [h0 \in Words32 |->
        IF Len(str) = 0 THEN h0
        ELSE IF Len(str) = 1 THEN hashStep[h0, str[1]]
        ELSE LET mid == Len(str) \div 2
             IN  hashLoop(SubSeq(str, mid + 1, Len(str)))[
                     hashLoop(SubSeq(str, 1, mid))[h0]]]

\* sessionHash.ts:53-61: the loop over str = sessionId + secret
rollingHash(sessionId) == hashLoop(sessionId \o Secret)[hashSeed]

\* Math.abs of a 32-bit integer, as the halves of its magnitude (2^31 for
\* the least integer)
abs32(h) == IF h[1] >= SignBit THEN Sub32(Zero32, h) ELSE h

\* Number.prototype.toString(16) of a number below 2^16
RECURSIVE toHex(_)
toHex(n) ==
    IF n < 16 THEN <<HexDigits[n + 1]>>
    ELSE toHex(n \div 16) \o <<HexDigits[(n % 16) + 1]>>

\* Number.prototype.toString(16) of a magnitude given by its halves
toString16(m) ==
    IF m[1] = 0 THEN toHex(m[2])
    ELSE toHex(m[1]) \o padStart(toHex(m[2]), 4, "0")

HexLen == 8
UniqueLen == 8
TokenLen == 16
DigestBytes == 12

\* sessionHash.ts:52-68
fallbackHash_UniqueFromEnd(sessionId) ==
    LET hash == rollingHash(sessionId)
        hex == padStart(toString16(abs32(hash)), HexLen, "0")
        unique == removeAll(SubSeq(sessionId, Len(sessionId) - UniqueLen + 1,
                                   Len(sessionId)), "-")
    IN  substring(hex \o unique, TokenLen)

fallbackHash(sessionId) ==
    LET hash == rollingHash(sessionId)
        hex == padStart(toString16(abs32(hash)), HexLen, "0")
        unique == removeAll(substring(sessionId, UniqueLen), "-")
    IN  substring(hex \o unique, TokenLen)

\* btoa of a byte string: three bytes give four characters, an incomplete
\* last group is padded with '='
RECURSIVE btoa(_)
btoa(bytes) ==
    LET n == Len(bytes)
        b1 == bytes[1]
        b2 == IF n >= 2 THEN bytes[2] ELSE 0
        b3 == IF n >= 3 THEN bytes[3] ELSE 0
        c1 == Base64Chars[(b1 \div 4) + 1]
        c2 == Base64Chars[((b1 % 4) * 16 + b2 \div 16) + 1]
        c3 == IF n >= 2 THEN Base64Chars[((b2 % 16) * 4 + b3 \div 64) + 1] ELSE "="
        c4 == IF n >= 3 THEN Base64Chars[(b3 % 64) + 1] ELSE "="
    IN  IF n = 0 THEN <<>>
        ELSE <<c1, c2, c3, c4>> \o (IF n <= 3 THEN <<>> ELSE btoa(SubSeq(bytes, 4, n)))

\* sessionHash.ts:37-39
urlSafe_KeepsSlash(base64) == removeAll(replaceAll(base64, "+", "-"), "=")
urlSafe(base64) ==
    removeAll(replaceAll(replaceAll(base64, "+", "-"), "/", "_"), "=")

\* sessionHash.ts:31-41, from the digest of identifier + Secret
primaryHash(hashArray) ==
    substring(urlSafe(btoa(SubSeq(hashArray, 1, DigestBytes))), TokenLen)

\* sessionHash.ts:74-77
isHashedSessionId(id) == ~includes(id, "-") /\ Len(id) <= TokenLen

\* ------------------------------------------------- sessionHash: the calls
\* calls of hashSessionId in one run
NumCalls == 2
Calls == 1..NumCalls

\* what window.crypto is in a browser: absent, without subtle, with a subtle
\* whose digest resolves, with a subtle whose digest rejects
CryptoEnvs == {"noCrypto", "noSubtle", "subtle", "throws"}

\* sessionHash.ts:14, negated
hasSubtle == hasWindow /\ hEnv \in {"subtle", "throws"}

\* the module is loaded in a browser or on the server; nothing was hashed
InitHash ==
    /\ hasWindow \in BOOLEAN
    /\ localStorage = EmptyLocal
    /\ sessionStorage = EmptySession
    /\ href = "/"
    /\ isRefreshing = FALSE
    /\ failedQueue = <<>>
    /\ st = [r \in Reqs |-> "new"]
    /\ url = [r \in Reqs |-> <<>>]
    /\ retry = [r \in Reqs |-> FALSE]
    /\ resp = [r \in Reqs |-> -1]
    /\ err = [r \in Reqs |-> NoError]
    /\ replays = [r \in Reqs |-> 0]
    /\ refreshesBy = [r \in Reqs |-> 0]
    /\ refreshResp = [r \in Reqs |-> -1]
    /\ settled = <<>>
    /\ lastCall = NoCall
    /\ hEnv \in (IF hasWindow THEN CryptoEnvs ELSE {"noCrypto"})
    /\ hId = [c \in Calls |-> 0]
    /\ hPc = [c \in Calls |-> "idle"]
    /\ hPath = [c \in Calls |-> "none"]
    /\ hTok = [c \in Calls |-> <<>>]
    /\ UiIdle

\* call c returns tok, produced on path
hashReturn(c, path, tok) ==
    /\ hPc' = [hPc EXCEPT ![c] = "done"]
    /\ hPath' = [hPath EXCEPT ![c] = path]
    /\ hTok' = [hTok EXCEPT ![c] = tok]

\* hashSessionId(Uuids[i]) up to its first suspension (sessionHash.ts:13-28):
\* without crypto.subtle it returns the fallback token, with it it awaits
\* the digest
hashSessionId(c, i) ==
    /\ hPc[c] = "idle"
    /\ hId' = [hId EXCEPT ![c] = i]
    /\ IF hasSubtle
       THEN /\ hPc' = [hPc EXCEPT ![c] = "await"]
            /\ UNCHANGED <<hPath, hTok>>
       ELSE hashReturn(c, "fallback", fallbackHash(Uuids[i]))
    /\ UNCHANGED <<hEnv, clientVars, uiVars>>

\* the digest resolves and the token is encoded (sessionHash.ts:28-41)
digestResolved_OncePerRun(c) ==
    /\ hPc[c] = "await"
    /\ hEnv = "subtle"
    /\ IF \E d \in Calls : hPath[d] = "primary"
       THEN hashReturn(c, "fallback", fallbackHash(Uuids[hId[c]]))
       ELSE hashReturn(c, "primary", primaryHash(Sha256[hId[c]]))
    /\ UNCHANGED <<hEnv, hId, clientVars, uiVars>>

digestResolved(c) ==
    /\ hPc[c] = "await"
    /\ hEnv = "subtle"
    /\ hashReturn(c, "primary", primaryHash(Sha256[hId[c]]))
    /\ UNCHANGED <<hEnv, hId, clientVars, uiVars>>

\* the digest rejects and the catch block answers (sessionHash.ts:42-45)
digestRejected_NoCatch(c) ==
    /\ hPc[c] = "await"
    /\ hEnv = "throws"
    /\ hashReturn(c, "rejected", <<>>)
    /\ UNCHANGED <<hEnv, hId, clientVars, uiVars>>

digestRejected(c) ==
    /\ hPc[c] = "await"
    /\ hEnv = "throws"
    /\ hashReturn(c, "fallback", fallbackHash(Uuids[hId[c]]))
    /\ UNCHANGED <<hEnv, hId, clientVars, uiVars>>

NextHash ==
    \E c \in Calls :
        \/ \E i \in IdIndexes : hashSessionId(c, i)
        \/ digestResolved(c)
        \/ digestRejected(c)

SpecHash == InitHash /\ [][NextHash]_vars

\* ------------------------------------------------------ Home: the chat
\* the API client in a browser, before any request
ClientLoaded ==
    /\ hasWindow = TRUE
    /\ localStorage = EmptyLocal
    /\ sessionStorage = EmptySession
    /\ href = "/"
    /\ isRefreshing = FALSE
    /\ failedQueue = <<>>
    /\ st = [r \in Reqs |-> "new"]
    /\ url = [r \in Reqs |-> <<>>]
    /\ retry = [r \in Reqs |-> FALSE]
    /\ resp = [r \in Reqs |-> -1]
    /\ err = [r \in Reqs |-> NoError]
    /\ replays = [r \in Reqs |-> 0]
    /\ refreshesBy = [r \in Reqs |-> 0]
    /\ refreshResp = [r \in Reqs |-> -1]
    /\ settled = <<>>
    /\ lastCall = NoCall

\* String.prototype.trim on the texts that occur
Trim == ("" :> "") @@ (" " :> "") @@ (" fever " :> "fever")
        @@ ("cough" :> "cough")

\* what the user types
Inputs == {"", " ", " fever "}

\* what POST /stt answers in response.data.text
SttTexts == {"", "cough"}

\* what POST /chat answers in response.data
ChatResponses ==
    { [answer |-> "Seek care now", citations |-> <<"who.int">>,
       facts |-> <<"red_flags">>, safety |-> [present |-> TRUE, red_flag |-> TRUE]],
      [answer |-> "Noted", citations |-> Undefined,
       facts |-> Undefined, safety |-> NoSafety] }

\* response.data of a request that has no answer
NoData ==
    [answer |-> "", citations |-> Undefined, facts |-> Undefined,
     safety |-> NoSafety]

\* Home after mount, in a browser with or without media devices
InitChat ==
    /\ ClientLoaded
    /\ HashIdle
    /\ messages = <<initialAssistantMessage>>
    /\ inputValue = ""
    /\ isLoading = FALSE
    /\ error = NoNotice
    /\ isRecording = FALSE
    /\ mediaRecorderRef = 0
    /\ hasMedia \in BOOLEAN
    /\ sends = <<>>
    /\ voice = [pc |-> "idle", seen |-> FALSE, last |-> "none"]
    /\ profile = defaultProfile
    /\ showProfile = FALSE
    /\ healthProfile = stringifyProfile(defaultProfile)
    /\ isOpen = FALSE
    /\ customerId = "null"
    /\ searchTerm = ""
    /\ sessions = <<>>
    /\ loading = FALSE
    /\ fetchError = NoNotice
    /\ fetchingRef = FALSE
    /\ fetches = <<>>

\* what the chat actions leave alone
notChat == <<clientVars, hashVars, profileVars, modalVars>>

\* textarea onChange (part_002:857); the textarea is disabled while loading
typeInput(v) ==
    /\ ~isLoading
    /\ inputValue' = v
    /\ UNCHANGED <<messages, isLoading, error, isRecording, mediaRecorderRef,
                   hasMedia, sends, voice, notChat>>

\* handleSend up to its await (part_002:338-355): overrides is the text
\* passed or the inputValue of the closure, seen the isLoading of the
\* closure, input the value inputValue holds when it is called
handleSend(overrides, seen, input) ==
    LET messageText == Trim[overrides]
    IN  IF messageText = "" \/ seen
        THEN /\ inputValue' = input
             /\ UNCHANGED <<messages, isLoading, error, sends>>
        ELSE /\ messages' = Append(messages, UserMessage(messageText))
             /\ inputValue' = ""
             /\ isLoading' = TRUE
             /\ error' = NoNotice
             /\ sends' = Append(sends, [text |-> messageText, st |-> "inflight",
                                        data |-> NoData])

\* form onSubmit or Enter (part_002:458-463, 831-835), both disabled while
\* loading
submit ==
    /\ ~isLoading
    /\ Len(sends) < MaxSends
    /\ handleSend(inputValue, isLoading, inputValue)
    /\ UNCHANGED <<isRecording, mediaRecorderRef, hasMedia, voice, notChat>>

\* the assistant entry built from response.data (part_002:361-369)
AssistantMessage_DropsSafety(data) ==
    ChatEntry("assistant", data.answer, data.citations, data.facts, NoSafety)

AssistantMessage(data) ==
    ChatEntry("assistant", data.answer, data.citations, data.facts, data.safety)

\* POST /chat of send i resolves (part_002:355-378, 394-396)
chatResolved(i, data) ==
    /\ sends[i].st = "inflight"
    /\ sends' = [sends EXCEPT ![i].st = "ok", ![i].data = data]
    /\ messages' = Append(messages, AssistantMessage(data))
    /\ isLoading' = FALSE
    /\ UNCHANGED <<inputValue, error, isRecording, mediaRecorderRef, hasMedia,
                   voice, notChat>>

\* POST /chat of send i fails (part_002:379-396)
chatFailed_Retries(i) ==
    /\ sends[i].st = "inflight"
    /\ sends' = Append([sends EXCEPT ![i].st = "failed"],
                       [text |-> sends[i].text, st |-> "inflight",
                        data |-> NoData])
    /\ error' = ChatNotice
    /\ messages' = Append(messages, ApologyMessage)
    /\ isLoading' = FALSE
    /\ UNCHANGED <<inputValue, isRecording, mediaRecorderRef, hasMedia, voice,
                   notChat>>

chatFailed(i) ==
    /\ sends[i].st = "inflight"
    /\ sends' = [sends EXCEPT ![i].st = "failed"]
    /\ error' = ChatNotice
    /\ messages' = Append(messages, ApologyMessage)
    /\ isLoading' = FALSE
    /\ UNCHANGED <<inputValue, isRecording, mediaRecorderRef, hasMedia, voice,
                   notChat>>

\* ErrorCallout onDismiss (part_002:565-567)
dismissError ==
    /\ error # NoNotice
    /\ error' = NoNotice
    /\ UNCHANGED <<messages, inputValue, isLoading, isRecording,
                   mediaRecorderRef, hasMedia, sends, voice, notChat>>

\* startRecording up to its await (part_002:399-406); the handlers of this
\* recording close over the render in which the button was pressed
startRecording ==
    /\ ~isRecording
    /\ voice.pc = "idle"
    /\ IF hasMedia
       THEN /\ voice' = [voice EXCEPT !.pc = "mic", !.seen = isLoading]
            /\ UNCHANGED error
       ELSE /\ error' = NoMediaNotice
            /\ voice' = [voice EXCEPT !.last = "noMedia"]
    /\ UNCHANGED <<messages, inputValue, isLoading, isRecording,
                   mediaRecorderRef, hasMedia, sends, notChat>>

\* getUserMedia resolves and the recorder starts (part_002:406-422)
micGranted ==
    /\ voice.pc = "mic"
    /\ voice' = [voice EXCEPT !.pc = "recording"]
    /\ mediaRecorderRef' = 1
    /\ isRecording' = TRUE
    /\ UNCHANGED <<messages, inputValue, isLoading, error, hasMedia, sends,
                   notChat>>

\* getUserMedia rejects or MediaRecorder throws (part_002:423-426)
micDenied_Apologises ==
    /\ voice.pc = "mic"
    /\ voice' = [voice EXCEPT !.pc = "idle", !.last = "denied"]
    /\ error' = MicNotice
    /\ messages' = Append(messages, ApologyMessage)
    /\ UNCHANGED <<inputValue, isLoading, isRecording, mediaRecorderRef,
                   hasMedia, sends, notChat>>

micDenied ==
    /\ voice.pc = "mic"
    /\ voice' = [voice EXCEPT !.pc = "idle", !.last = "denied"]
    /\ error' = MicNotice
    /\ UNCHANGED <<messages, inputValue, isLoading, isRecording,
                   mediaRecorderRef, hasMedia, sends, notChat>>

\* stopRecording (part_002:429-434); onstop posts the audio to /stt
\* (part_002:415-419, 436-443)
stopRecording ==
    /\ mediaRecorderRef # 0
    /\ isRecording
    /\ voice.pc = "recording"
    /\ voice' = [voice EXCEPT !.pc = "stt"]
    /\ isRecording' = FALSE
    /\ UNCHANGED <<messages, inputValue, isLoading, error, mediaRecorderRef,
                   hasMedia, sends, notChat>>

\* POST /stt resolves (part_002:445-449): a text that is not empty is put
\* in the input and sent by the handleSend of the recording's closure
sttResolved(text) ==
    /\ voice.pc = "stt"
    /\ Len(sends) < MaxSends
    /\ voice' = [voice EXCEPT !.pc = "idle", !.last = "heard"]
    /\ IF text # ""
       THEN handleSend(text, voice.seen, text)
       ELSE UNCHANGED <<messages, inputValue, isLoading, error, sends>>
    /\ UNCHANGED <<isRecording, mediaRecorderRef, hasMedia, notChat>>

\* POST /stt fails (part_002:450-455)
sttFailed ==
    /\ voice.pc = "stt"
    /\ voice' = [voice EXCEPT !.pc = "idle", !.last = "failed"]
    /\ error' = SttNotice
    /\ UNCHANGED <<messages, inputValue, isLoading, isRecording,
                   mediaRecorderRef, hasMedia, sends, notChat>>

NextChat ==
    \/ \E v \in Inputs : typeInput(v)
    \/ submit
    \/ \E i \in 1..Len(sends) : \E data \in ChatResponses : chatResolved(i, data)
    \/ \E i \in 1..Len(sends) : chatFailed(i)
    \/ dismissError
    \/ startRecording
    \/ micGranted
    \/ micDenied
    \/ \E text \in SttTexts : sttResolved(text)
    \/ sttFailed
    \/ stopRecording

SpecChat == InitChat /\ [][NextChat]_vars

\* sessions fetched by one modal in one run
MaxFetches == 2

\* the customers the parent passes, "null" when nobody is signed in
Customers == {"null", "u1", "u2"}

\* what GET /customer/{id}/sessions answers in response.data
SessionLists == {Null, <<>>, <<"s1">>, <<"s1", "s2">>}

\* err.response?.data?.detail, "" when it is absent
Details == {"", "Not authenticated"}

\* SearchChatsModal.tsx:51
DefaultFetchNotice == "Failed to load chat history"

\* what the search box receives
SearchTerms == {"", "s1"}

\* SearchChatsModal mounted closed by a parent with no customer
InitModal ==
    /\ ClientLoaded
    /\ HashIdle
    /\ UiIdle

\* what the modal leaves alone
notModal == <<clientVars, hashVars, chatVars, profileVars>>

\* fetchSessions up to its await (SearchChatsModal.tsx:39-47), called with
\* the customerId of the render whose effect runs
fetchSessions(customer) ==
    IF customer = "null" \/ fetchingRef
    THEN UNCHANGED <<sessions, loading, fetchError, fetchingRef, fetches>>
    ELSE /\ fetchingRef' = TRUE
         /\ loading' = TRUE
         /\ fetchError' = NoNotice
         /\ fetches' = Append(fetches, "inflight")
         /\ UNCHANGED sessions

\* the effect on [isOpen, customerId] (SearchChatsModal.tsx:33-37), run
\* after a render in which one of them changed
sessionsEffect(open, customer) ==
    IF open /\ customer # "null" /\ ~fetchingRef
    THEN fetchSessions(customer)
    ELSE UNCHANGED <<sessions, loading, fetchError, fetchingRef, fetches>>

\* the parent opens the modal
openModal ==
    /\ ~isOpen
    /\ Len(fetches) < MaxFetches
    /\ isOpen' = TRUE
    /\ sessionsEffect(TRUE, customerId)
    /\ UNCHANGED <<customerId, searchTerm, notModal>>

\* onClose (SearchChatsModal.tsx:92, 103, 150): the parent closes the modal
closeModal ==
    /\ isOpen
    /\ isOpen' = FALSE
    /\ sessionsEffect(FALSE, customerId)
    /\ UNCHANGED <<customerId, searchTerm, notModal>>

\* the parent passes another customerId
setCustomer(customer) ==
    /\ customer # customerId
    /\ Len(fetches) < MaxFetches
    /\ customerId' = customer
    /\ sessionsEffect(isOpen, customer)
    /\ UNCHANGED <<isOpen, searchTerm, notModal>>

\* search box onChange (SearchChatsModal.tsx:117), rendered while open
typeSearch(term) ==
    /\ isOpen
    /\ searchTerm' = term
    /\ UNCHANGED <<isOpen, customerId, sessions, loading, fetchError,
                   fetchingRef, fetches, notModal>>

\* GET .../sessions of fetch i resolves (SearchChatsModal.tsx:47-48, 53-56)
fetchResolved(i, data) ==
    /\ fetches[i] = "inflight"
    /\ fetches' = [fetches EXCEPT ![i] = "ok"]
    /\ sessions' = IF data = Null THEN <<>> ELSE data
    /\ loading' = FALSE
    /\ fetchingRef' = FALSE
    /\ UNCHANGED <<isOpen, customerId, searchTerm, fetchError, notModal>>

\* GET .../sessions of fetch i fails (SearchChatsModal.tsx:49-56)
fetchFailed_KeepsSessions(i, detail) ==
    /\ fetches[i] = "inflight"
    /\ fetches' = [fetches EXCEPT ![i] = "failed"]
    /\ fetchError' = IF detail # "" THEN detail ELSE DefaultFetchNotice
    /\ loading' = FALSE
    /\ fetchingRef' = FALSE
    /\ UNCHANGED <<isOpen, customerId, searchTerm, sessions, notModal>>

fetchFailed(i, detail) ==
    /\ fetches[i] = "inflight"
    /\ fetches' = [fetches EXCEPT ![i] = "failed"]
    /\ fetchError' = IF detail # "" THEN detail ELSE DefaultFetchNotice
    /\ sessions' = <<>>
    /\ loading' = FALSE
    /\ fetchingRef' = FALSE
    /\ UNCHANGED <<isOpen, customerId, searchTerm, notModal>>

NextModal ==
    \/ openModal
    \/ closeModal
    \/ \E customer \in Customers : setCustomer(customer)
    \/ \E term \in SearchTerms : typeSearch(term)
    \/ \E i \in 1..Len(fetches) : \E data \in SessionLists : fetchResolved(i, data)
    \/ \E i \in 1..Len(fetches) : \E detail \in Details : fetchFailed(i, detail)

SpecModal == InitModal /\ [][NextModal]_vars

\* Number(event.target.value) on the texts the age field receives
NumberOf == ("0" :> 0) @@ ("34" :> 34)

\* what the age field receives, "" when it is cleared
AgeInputs == {""} \cup DOMAIN NumberOf

\* the values of the options of the sex select (part_002:1091-1094)
SexValues == {"", "male", "female", "other"}

\* what the city field receives
Cities == {"", "Pune"}

\* Home mounted with nothing saved
InitProfile ==
    /\ ClientLoaded
    /\ HashIdle
    /\ UiIdle

\* what the profile form leaves alone
notProfile == <<clientVars, hashVars, chatVars, modalVars>>

\* setProfile followed by the effect on [profile] (part_002:286-288)
setProfile(next) ==
    /\ profile' = next
    /\ healthProfile' = stringifyProfile(next)
    /\ UNCHANGED <<showProfile, notProfile>>

\* part_002:469
openProfile ==
    /\ ~showProfile
    /\ showProfile' = TRUE
    /\ UNCHANGED <<profile, healthProfile, notProfile>>

\* part_002:1008, 1118, 1124
closeProfile ==
    /\ showProfile
    /\ showProfile' = FALSE
    /\ UNCHANGED <<profile, healthProfile, notProfile>>

\* diabetes checkbox onChange (part_002:1021-1031)
toggleDiabetes ==
    /\ showProfile
    /\ setProfile([profile EXCEPT !.diabetes = ~profile.diabetes])

\* hypertension checkbox onChange (part_002:1033-1043)
toggleHypertension ==
    /\ showProfile
    /\ setProfile([profile EXCEPT !.hypertension = ~profile.hypertension])

\* the pregnancy checkbox is rendered (part_002:1045)
pregnancyOffered == profile.sex \in {"female", "undefined", "other"}

\* pregnancy checkbox onChange (part_002:1045-1057)
togglePregnancy ==
    /\ showProfile
    /\ pregnancyOffered
    /\ setProfile([profile EXCEPT !.pregnancy = ~profile.pregnancy])

\* age field onChange (part_002:1062-1073)
changeAge(value) ==
    /\ showProfile
    /\ LET age == IF value # "" THEN NumberOf[value] ELSE NoAge
       IN  /\ age # profile.age
           /\ setProfile([profile EXCEPT !.age = age])

\* sex select onChange (part_002:1078-1089)
changeSex_KeepsPregnancy(value) ==
    /\ showProfile
    /\ value # (IF profile.sex = "undefined" THEN "" ELSE profile.sex)
    /\ setProfile([profile EXCEPT
                      !.sex = IF value # "" THEN value ELSE "undefined"])

changeSex(value) ==
    /\ showProfile
    /\ value # (IF profile.sex = "undefined" THEN "" ELSE profile.sex)
    /\ setProfile([profile EXCEPT
                      !.sex = IF value # "" THEN value ELSE "undefined",
                      !.pregnancy = IF value = "female"
                                    THEN profile.pregnancy ELSE FALSE])

\* city field onChange (part_002:1108)
changeCity(value) ==
    /\ showProfile
    /\ value # profile.city
    /\ setProfile([profile EXCEPT !.city = value])

NextProfile ==
    \/ openProfile
    \/ closeProfile
    \/ toggleDiabetes
    \/ toggleHypertension
    \/ togglePregnancy
    \/ \E value \in AgeInputs : changeAge(value)
    \/ \E value \in SexValues : changeSex(value)
    \/ \E value \in Cities : changeCity(value)

SpecProfile == InitProfile /\ [][NextProfile]_vars

TypeOK ==
    /\ hasWindow \in BOOLEAN
    /\ isRefreshing \in BOOLEAN
    /\ \A r \in Reqs :
        /\ st[r] \in {"new", "inflight", "queued", "refreshing", "resolved", "rejected"}
        /\ retry[r] \in BOOLEAN
        /\ replays[r] \in Nat
        /\ refreshesBy[r] \in Nat


\* ---------------------------------------------------------------- claims
\* the interceptor handles a 401 answer to request r in this step
Got401(r) ==
    /\ st[r] = "inflight"
    /\ st'[r] # "inflight"
    /\ resp'[r] = StatusUnauthorized

\* the refresh call posted by t's handler completes in this step
RefreshCompletes(t) ==
    /\ st[t] = "refreshing"
    /\ refreshResp'[t] # -1

Queued(q) == InSeq(q, failedQueue)

AuthCleared(win, ls) ==
    /\ ~isAuthenticated(win, ls)
    /\ getAuthUser(win, ls) = Null

\* C1: at most one call to POST /auth/refresh is in flight at any time
C1_AtMostOneRefreshInFlight == Cardinality(RefreshInFlight) <= 1

C1_Witness ==
    /\ Cardinality(RefreshInFlight) = 1
    /\ Len(failedQueue) >= 1
    /\ \E r \in Reqs : st[r] = "inflight"

\* C2: every original request is re-issued by the interceptor at most once,
\* whether it triggered the refresh or was queued
C2_ReplayedAtMostOnce == \A r \in Reqs : replays[r] <= 1

\* C3: a request answered 401 while a refresh call is in flight starts no
\* refresh and is appended to the queue; one refresh call was issued in
\* total by the trigger and the queued requests
C3_QueuedInsteadOfRefresh ==
    /\ [](\A t \in RefreshInFlight :
            /\ refreshesBy[t] = 1
            /\ \A q \in Reqs : Queued(q) => refreshesBy[q] = 0)
    /\ [][\A r \in Reqs :
            (/\ Got401(r)
             /\ RefreshInFlight # {}
             /\ ~retry[r]
             /\ url[r] \notin {RefreshUrl, MeUrl})
            => /\ failedQueue' = Append(failedQueue, r)
               /\ st'[r] = "queued"
               /\ refreshesBy' = refreshesBy
               /\ RefreshInFlight' = RefreshInFlight]_vars

C3_Witness ==
    /\ Cardinality(RefreshInFlight) = 1
    /\ Len(failedQueue) >= 2

\* C4: every queued request is replayed or rejected when the refresh call
\* in flight completes, whatever its outcome
C4_QueuedSettledOnCompletion ==
    [][\A t \in Reqs : RefreshCompletes(t) =>
            \A q \in Reqs : Queued(q) => st'[q] \in {"inflight", "rejected"}]_vars

\* C5: when the refresh call succeeds or fails the queued entries are
\* settled in arrival order, resolved (replayed) on success and rejected with
\* the refresh error on failure, and the queue is empty afterwards
C5_FifoSettlement ==
    [][\A t \in Reqs :
        (RefreshCompletes(t) /\ refreshResp'[t] \in {StatusOK} \cup RefreshRejected)
        => /\ settled' = failedQueue
           /\ failedQueue' = <<>>
           /\ \A q \in Reqs : Queued(q) =>
                IF refreshResp'[t] = StatusOK
                THEN st'[q] = "inflight" /\ replays'[q] = replays[q] + 1
                ELSE st'[q] = "rejected"
                     /\ err'[q] = RefreshError(t, refreshResp'[t])]_vars

C5_Witness ==
    /\ Len(settled) >= 2
    /\ failedQueue = <<>>
    /\ \A i \in 1..Len(settled) : st[settled[i]] = "rejected"

\* C6: a 401 answer to /auth/refresh or /auth/me starts no refresh call and
\* enqueues nothing, in either state; the auth state is cleared and the caller
\* is rejected with that error
C6_AuthEndpoint401Terminal ==
    [][/\ \A r \in Reqs :
            (Got401(r) /\ url[r] \in {RefreshUrl, MeUrl})
            => /\ refreshesBy' = refreshesBy
               /\ RefreshInFlight' = RefreshInFlight
               /\ failedQueue' = failedQueue
               /\ isRefreshing' = isRefreshing
               /\ st'[r] = "rejected"
               /\ err'[r] = ResponseError(r, StatusUnauthorized)
               /\ AuthCleared(hasWindow', localStorage')
       /\ \A t \in Reqs :
            (RefreshCompletes(t) /\ refreshResp'[t] = StatusUnauthorized)
            => /\ refreshesBy' = refreshesBy
               /\ RefreshInFlight' = {}
               /\ failedQueue' = <<>>
               /\ st'[t] = "rejected"
               /\ err'[t] = RefreshError(t, StatusUnauthorized)
               /\ AuthCleared(hasWindow', localStorage')]_vars

C6_Witness ==
    /\ \E r \in Reqs :
        /\ url[r] = MeUrl
        /\ st[r] = "rejected"
        /\ err[r] = [kind |-> "response", req |-> r, try |-> 0,
                     status |-> StatusUnauthorized]
    /\ AuthCleared(hasWindow, localStorage)
    /\ RefreshInFlight # {}
    /\ Len(failedQueue) >= 1

\* C7: when the refresh call fails with any error, the trigger and every
\* queued entry are rejected with the refresh error, the auth state is
\* cleared, authExpired is set, the redirect to /auth is signalled and the
\* state is Idle
C7_RefreshFailure ==
    [][\A t \in Reqs :
        (RefreshCompletes(t) /\ refreshResp'[t] \in RefreshRejected)
        => LET e == RefreshError(t, refreshResp'[t]) IN
           /\ st'[t] = "rejected" /\ err'[t] = e
           /\ \A q \in Reqs : Queued(q) => st'[q] = "rejected" /\ err'[q] = e
           /\ AuthCleared(hasWindow', localStorage')
           /\ getItem(sessionStorage', AUTH_EXPIRED_KEY) = TrueString
           /\ href' = AuthRoute
           /\ ~isRefreshing'
           /\ RefreshInFlight' = {}]_vars

C7_Witness ==
    \E t \in Reqs :
        /\ refreshResp[t] \in RefreshRejected \ {StatusUnauthorized}
        /\ Len(settled) >= 1
        /\ \A q \in Reqs : (q = t \/ InSeq(q, settled)) =>
              st[q] = "rejected" /\ err[q] = RefreshError(t, refreshResp[t])
        /\ href = AuthRoute
        /\ ~isRefreshing

\* C8: a 401 in the Idle state for a request not marked retried and not
\* aimed at /auth/refresh or /auth/me issues exactly one refresh call, marks
\* the request and makes the state Refreshing within the same handler run
C8_IdleStartsRefresh ==
    [][\A r \in Reqs :
        (/\ Got401(r)
         /\ ~isRefreshing
         /\ ~retry[r]
         /\ url[r] \notin {RefreshUrl, MeUrl})
        => /\ refreshesBy' = [refreshesBy EXCEPT ![r] = refreshesBy[r] + 1]
           /\ RefreshInFlight' = {r}
           /\ retry'[r]
           /\ isRefreshing'
           /\ failedQueue' = failedQueue]_vars

C8_Witness ==
    \E r \in Reqs :
        /\ st[r] = "refreshing"
        /\ retry[r]
        /\ isRefreshing
        /\ refreshesBy[r] = 1
        /\ replays[r] = 0

\* C9: a 401 answer to the replay of a request marked retried starts no
\* refresh and enqueues nothing; the auth state is cleared, the redirect is
\* signalled and the caller is rejected with that 401 error
C9_RetriedReplay401 ==
    [][\A r \in Reqs :
        (Got401(r) /\ retry[r])
        => /\ replays[r] >= 1
           /\ refreshesBy' = refreshesBy
           /\ RefreshInFlight' = RefreshInFlight
           /\ failedQueue' = failedQueue
           /\ isRefreshing' = isRefreshing
           /\ st'[r] = "rejected"
           /\ err'[r] = ResponseError(r, StatusUnauthorized)
           /\ AuthCleared(hasWindow', localStorage')
           /\ getItem(sessionStorage', AUTH_EXPIRED_KEY) = TrueString
           /\ href' = AuthRoute]_vars

C9_Witness ==
    \E r \in Reqs :
        /\ retry[r]
        /\ replays[r] = 1
        /\ st[r] = "rejected"
        /\ err[r] = [kind |-> "response", req |-> r, try |-> 1,
                     status |-> StatusUnauthorized]
        /\ href = AuthRoute

\* the refresh calls issued so far
RECURSIVE SumTo(_, _)
SumTo(f, n) == IF n = 0 THEN 0 ELSE f[n] + SumTo(f, n - 1)
RefreshCalls == SumTo(refreshesBy, NumReqs)

\* C10: no request issues more than one refresh call and every replay
\* follows a refresh call, so refresh calls and replays are bounded by the
\* number of requests and the protocol stops issuing them
C10_RefreshBounded ==
    /\ [](\A r \in Reqs :
            /\ refreshesBy[r] <= 1
            /\ replays[r] <= RefreshCalls)
    /\ <>[][refreshesBy' = refreshesBy /\ replays' = replays]_vars

C10_Witness ==
    \A r \in Reqs :
        /\ st[r] = "rejected"
        /\ refreshesBy[r] = 1
        /\ refreshResp[r] = StatusOK
        /\ replays[r] >= 1
        /\ err[r].status = StatusUnauthorized


\* C11: isRefreshing is true exactly while a refresh call is in flight: set
\* when the call is issued, cleared when it completes, whatever the outcome
C11_RefreshingIffInFlight == isRefreshing <=> (RefreshInFlight # {})

C11_Witness ==
    /\ ~isRefreshing
    /\ \E t \in Reqs : refreshResp[t] = StatusOK
    /\ \E t \in Reqs : refreshResp[t] \in RefreshRejected
    /\ \E t \in Reqs : refreshResp[t] \in RefreshResolved \ {StatusOK}

\* the interceptor handles an answer other than 401, or no answer, to r
GotOtherError(r) ==
    /\ st[r] = "inflight"
    /\ st'[r] # "inflight"
    /\ resp'[r] \in ErrorStatuses \ {StatusUnauthorized}

\* C12: an error that is not a 401 is rejected to the caller unchanged and
\* leaves isRefreshing, the queue and the auth state alone; no refresh call
\* and no replay is issued
C12_OtherErrorsPassThrough ==
    [][\A r \in Reqs : GotOtherError(r) =>
        /\ st'[r] = "rejected"
        /\ err'[r] = ResponseError(r, resp'[r])
        /\ \A q \in Reqs \ {r} : st'[q] = st[q] /\ err'[q] = err[q]
        /\ UNCHANGED <<isRefreshing, failedQueue, localStorage, sessionStorage,
                       href, retry, refreshesBy, replays>>]_vars

C12_Witness ==
    /\ \E r \in Reqs :
        /\ st[r] = "rejected"
        /\ err[r].kind = "response"
        /\ err[r].status \in ErrorStatuses \ {StatusUnauthorized}
    /\ isRefreshing
    /\ Len(failedQueue) >= 1
    /\ isAuthenticated(hasWindow, localStorage)


\* C13: when a request and the refresh call it waits for are both answered
\* 401, the request is rejected and isAuthenticated() is false afterwards,
\* for the request that started the refresh (arrived Idle) and for those
\* queued behind it (arrived Refreshing)
C13_Both401ClearsFlag ==
    [][\A t \in Reqs :
        (RefreshCompletes(t) /\ refreshResp'[t] = StatusUnauthorized)
        => \A q \in Reqs : (q = t \/ Queued(q)) =>
            /\ resp[q] = StatusUnauthorized
            /\ st'[q] = "rejected"
            /\ ~isAuthenticated(hasWindow', localStorage')]_vars

C13_Witness ==
    \E t, q \in Reqs :
        /\ q # t
        /\ hasWindow
        /\ refreshResp[t] = StatusUnauthorized
        /\ st[t] = "rejected"
        /\ st[q] = "rejected"
        /\ err[q] = RefreshError(t, StatusUnauthorized)
        /\ lastCall.op = "handleUnauthorized"
        /\ ~isAuthenticated(hasWindow, localStorage)

\* C14: in a browser, after setAuth(user) getAuthUser() equals user and
\* isAuthenticated() is true (the latest setAuth wins); after clearAuth()
\* isAuthenticated() is false and getAuthUser() is null
C14_AuthStoreRoundTrip ==
    hasWindow =>
        /\ lastCall.op = "setAuth" =>
            /\ getAuthUser(hasWindow, localStorage) = lastCall.user
            /\ isAuthenticated(hasWindow, localStorage)
        /\ lastCall.op = "clearAuth" =>
            /\ getAuthUser(hasWindow, localStorage) = Null
            /\ ~isAuthenticated(hasWindow, localStorage)

C14_Witness ==
    /\ hasWindow
    /\ lastCall = [op |-> "setAuth", user |-> User2]
    /\ getAuthUser(hasWindow, localStorage) = User2
    /\ getItem(sessionStorage, AUTH_EXPIRED_KEY) = TrueString

\* C15: with window undefined setAuth, clearAuth and handleUnauthorized
\* change nothing, isAuthenticated() is false and getAuthUser() is null
C15_NoWindowNoOps ==
    ~hasWindow =>
        /\ localStorage = EmptyLocal
        /\ sessionStorage = EmptySession
        /\ href = "/"
        /\ ~isAuthenticated(hasWindow, localStorage)
        /\ getAuthUser(hasWindow, localStorage) = Null

C15_Witness ==
    /\ ~hasWindow
    /\ lastCall.op = "handleUnauthorized"
    /\ \E t \in Reqs : st[t] = "rejected" /\ err[t].kind = "refresh"

\* C16: starting from empty storage the authenticated marker is present
\* exactly when the user record is present
C16_MarkerIffUser ==
    (getItem(localStorage, AUTH_TOKEN_KEY) # Null)
        <=> (getItem(localStorage, AUTH_USER_KEY) # Null)

C16_Witness ==
    /\ getItem(localStorage, AUTH_TOKEN_KEY) = Authenticated
    /\ getItem(localStorage, AUTH_USER_KEY) = JSONstringify(User)
    /\ getItem(sessionStorage, AUTH_EXPIRED_KEY) = TrueString

\* the URL-safe alphabet: A-Z, a-z, 0-9, '-' and '_'
UrlSafeAlphabet ==
    ({Base64Chars[k] : k \in 1..Len(Base64Chars)} \ {"+", "/"}) \cup {"-", "_"}

\* call c of hashSessionId has returned
Returned(c) == hPc[c] = "done"

\* the identifier call c was given
IdOf(c) == Uuids[hId[c]]

\* C17: isHashedSessionId is false for every canonical UUID and true for
\* every token hashSessionId returns for one, on either path
C17_TokensRecognised ==
    \A c \in Calls :
        Returned(c) =>
            /\ ~isHashedSessionId(IdOf(c))
            /\ isHashedSessionId(hTok[c])

C19_SixteenUrlSafe ==
    \A c \in Calls :
        Returned(c) =>
            /\ Len(hTok[c]) = 16
            /\ \A k \in 1..Len(hTok[c]) : hTok[c][k] \in UrlSafeAlphabet

\* a token of the primary path in which a '/' of the base64 text was replaced
C19_Witness ==
    \E c \in Calls :
        /\ Returned(c)
        /\ hPath[c] = "primary"
        /\ includes(btoa(SubSeq(Sha256[hId[c]], 1, DigestBytes)), "/")
        /\ includes(hTok[c], "_")

\* the hash value call c computed: the digest on the primary path, the
\* rolling hash on the fallback path
HashValue(c) ==
    IF hPath[c] = "primary" THEN Sha256[hId[c]] ELSE rollingHash(IdOf(c))

\* the first eight characters of the identifier call c was given
FragmentOf(c) == SubSeq(IdOf(c), 1, 8)

\* C20 as stated: two identifiers with the same hash value give the same
\* token, no character of the token being copied from the identifier
C20_SameHashSameToken ==
    \A c, d \in Calls :
        (Returned(c) /\ Returned(d) /\ HashValue(c) = HashValue(d))
            => hTok[c] = hTok[d]

\* C20, amended: a fallback token ends with the first eight characters of
\* the identifier, and two identifiers with the same hash value give the same
\* token when they also agree on those eight characters
C20_FragmentExposed ==
    \A c, d \in Calls :
        /\ (Returned(c) /\ hPath[c] = "fallback")
                => SubSeq(hTok[c], 9, 16) = FragmentOf(c)
        /\ ( /\ Returned(c) /\ Returned(d)
             /\ HashValue(c) = HashValue(d)
             /\ (hPath[c] = "fallback" => FragmentOf(c) = FragmentOf(d)) )
                => hTok[c] = hTok[d]

\* two different identifiers with the same rolling hash and the same first
\* eight characters were hashed on the fallback path
C20_Witness ==
    \E c, d \in Calls :
        /\ Returned(c) /\ Returned(d)
        /\ hPath[c] = "fallback" /\ hPath[d] = "fallback"
        /\ hId[c] # hId[d]
        /\ HashValue(c) = HashValue(d)
        /\ FragmentOf(c) = FragmentOf(d)

\* the runtime lacks window, window.crypto or window.crypto.subtle, or the
\* primary path throws
FallbackNeeded == ~hasWindow \/ hEnv \in {"noCrypto", "noSubtle", "throws"}

\* C21: hashSessionId returns the fallback token exactly when window, crypto
\* or subtle is missing or the primary path throws, it returns a token then
\* instead of rejecting, and it returns the primary token when the digest
\* succeeds
C21_FallbackLastResort ==
    \A c \in Calls :
        Returned(c) =>
            /\ hPath[c] \in {"primary", "fallback"}
            /\ hPath[c] = "fallback" <=> FallbackNeeded
            /\ hPath[c] = "fallback" => hTok[c] = fallbackHash(IdOf(c))
            /\ hPath[c] = "primary" => hTok[c] = primaryHash(Sha256[hId[c]])

\* a call whose digest was rejected has returned
C21_Witness ==
    \E c \in Calls :
        /\ Returned(c)
        /\ hasWindow /\ hEnv = "throws"
        /\ hTok[c] # <<>>

\* 31 * h + n wrapped to 32 bits
Times31Plus(h, n) ==
    LET low == 31 * h[2] + n
    IN  <<(31 * h[1] + low \div Half) % Half, low % Half>>

\* h after the characters of str, each taking h to 31 * h + c
RECURSIVE Claimed31(_)
Claimed31(str) ==
    [h \in Words32 |->
        IF Len(str) = 0 THEN h
        ELSE IF Len(str) = 1 THEN Times31Plus(h, CharCodes[str[1]])
        ELSE LET k == Len(str) \div 2
             IN  Claimed31(SubSeq(str, k + 1, Len(str)))[
                     Claimed31(SubSeq(str, 1, k))[h]]]

\* the four hexadecimal digits of a 16-bit half
Hex4(n) ==
    <<HexDigits[(n \div 4096) + 1], HexDigits[((n \div 256) % 16) + 1],
      HexDigits[((n \div 16) % 16) + 1], HexDigits[(n % 16) + 1]>>

\* the eight hexadecimal digits of the absolute value of the signed h
HexAbs8(h) ==
    LET m == IF h[1] >= 32768
             THEN (IF h[2] = 0 THEN <<(65536 - h[1]) % 65536, 0>>
                   ELSE <<65535 - h[1], 65536 - h[2]>>)
             ELSE h
    IN  Hex4(m[1]) \o Hex4(m[2])

\* the token C25 states for the identifier id
ClaimedFallback(id) ==
    SubSeq(HexAbs8(Claimed31(id \o Secret)[<<0, 0>>])
               \o SelectSeq(SubSeq(id, 1, 8), LAMBDA x : x # "-"), 1, 16)

\* C25: fallbackHash(id) is the first 16 characters of the 8 hex digits of
\* |h|, h being 31 * h + c over id and the salt wrapped to 32 bits, followed
\* by the first 8 characters of id without '-'; 16 characters for a UUID
C25_FallbackFormula ==
    \A c \in Calls :
        (Returned(c) /\ hPath[c] = "fallback") =>
            /\ hTok[c] = ClaimedFallback(IdOf(c))
            /\ Len(hTok[c]) = 16

\* a fallback token was returned for an identifier whose hash is negative
C25_Witness ==
    \E c \in Calls :
        /\ Returned(c)
        /\ hPath[c] = "fallback"
        /\ Claimed31(IdOf(c) \o Secret)[<<0, 0>>][1] >= 32768

\* C26: whenever isRefreshing is false and no refresh call is in flight, the
\* pending queue is empty
C26_IdleQueueEmpty ==
    (~isRefreshing /\ RefreshInFlight = {}) => failedQueue = <<>>

\* a terminal 401 was handled since the page was loaded
TerminalHandled == href = AuthRoute

\* C27: a terminal 401 handled while a refresh call is in flight leaves
\* isRefreshing and the queue unchanged, clears the auth state, sets
\* authExpired and redirects, and the queued requests are settled when that
\* refresh call completes
C27_Terminal401DuringRefresh ==
    /\ [][\A r \in Reqs :
            (/\ Got401(r)
             /\ RefreshInFlight # {}
             /\ (url[r] = MeUrl \/ retry[r]))
            => /\ isRefreshing' = isRefreshing
               /\ failedQueue' = failedQueue
               /\ RefreshInFlight' = RefreshInFlight
               /\ AuthCleared(hasWindow', localStorage')
               /\ getItem(sessionStorage', AUTH_EXPIRED_KEY) = TrueString
               /\ href' = AuthRoute]_vars
    /\ [][\A t \in Reqs :
            (RefreshCompletes(t) /\ TerminalHandled)
            => \A q \in Reqs :
                  Queued(q) => st'[q] \in {"inflight", "rejected"}]_vars

\* the POST /chat requests awaiting their answer
ChatInFlight == {i \in 1..Len(sends) : sends[i].st = "inflight"}

\* POST /chat of send i fails in this step
ChatFails(i) == sends[i].st = "inflight" /\ sends'[i].st = "failed"

\* C22: when POST /chat fails, handleSend sets the notice, appends one
\* apology entry after the user's entry, sets isLoading to false and issues
\* no request
C22_ChatFailure ==
    [][\A i \in 1..Len(sends) :
        ChatFails(i)
        => /\ error' = ChatNotice
           /\ messages' = Append(messages, ApologyMessage)
           /\ \E k \in 1..Len(messages) : messages[k] = UserMessage(sends[i].text)
           /\ isLoading' = FALSE
           /\ Len(sends') = Len(sends)
           /\ ChatInFlight' = ChatInFlight \ {i}]_vars

\* a send has failed and its apology is the last entry
C22_Witness ==
    /\ \E i \in 1..Len(sends) : sends[i].st = "failed"
    /\ messages[Len(messages)] = ApologyMessage
    /\ error = ChatNotice
    /\ ~isLoading

\* the microphone is unavailable or refused, or POST /stt fails, in this step
MediaFails ==
    \/ voice.pc = "idle" /\ voice' # voice /\ voice'.last = "noMedia"
    \/ voice.pc = "mic" /\ voice'.pc = "idle"
    \/ voice.pc = "stt" /\ voice'.pc = "idle" /\ voice'.last = "failed"

\* C23: a microphone failure or a speech-to-text failure sets the notice and
\* leaves the entries, isLoading and the requests as they are
C23_MediaFailureOnlyNotice ==
    [][MediaFails
        => /\ error' \in {NoMediaNotice, MicNotice, SttNotice}
           /\ messages' = messages
           /\ isLoading' = isLoading
           /\ sends' = sends
           /\ inputValue' = inputValue]_vars

\* POST /stt has failed while a typed send awaits its answer
C23_Witness ==
    /\ voice.last = "failed" /\ voice.pc = "idle"
    /\ error = SttNotice
    /\ isLoading
    /\ ChatInFlight # {}

\* part_002:642: message.safety?.red_flag
RedFlagPanel(message) == message.safety.present /\ message.safety.red_flag

\* POST /chat of send i resolves in this step
ChatResolves(i) == sends[i].st = "inflight" /\ sends'[i].st = "ok"

\* C24: the assistant entry appended for a successful answer carries answer,
\* citations, facts and safety as returned, and the red-flag panel is
\* rendered for it when safety.red_flag is true
C24_AnswerPassedThrough ==
    [][\A i \in 1..Len(sends) :
        ChatResolves(i)
        => LET data == sends'[i].data
               entry == messages'[Len(messages')]
           IN  /\ Len(messages') = Len(messages) + 1
               /\ SubSeq(messages', 1, Len(messages)) = messages
               /\ entry.role = "assistant"
               /\ entry.content = data.answer
               /\ entry.citations = data.citations
               /\ entry.facts = data.facts
               /\ entry.safety = data.safety
               /\ (data.safety.present /\ data.safety.red_flag)
                      => RedFlagPanel(entry)]_vars

\* an answer with safety.red_flag true was appended as the last entry
C24_Witness ==
    /\ \E i \in 1..Len(sends) :
          /\ sends[i].st = "ok"
          /\ sends[i].data.safety.red_flag
          /\ messages[Len(messages)].content = sends[i].data.answer
    /\ RedFlagPanel(messages[Len(messages)])

\* C28: at most one POST /chat request is in flight at any time
C28_OneChatInFlight == Cardinality(ChatInFlight) <= 1

\* the GET .../sessions requests awaiting their answer
FetchInFlight == {i \in 1..Len(fetches) : fetches[i] = "inflight"}

\* fetch i settles in this step
FetchSettles(i) == fetches[i] = "inflight" /\ fetches'[i] # "inflight"

\* C29: at most one sessions fetch is in flight; when a fetch settles the
\* loading flag is false and fetchingRef is released; an error message is
\* set only together with an empty session list
C29_OneFetchInFlight ==
    /\ [](Cardinality(FetchInFlight) <= 1)
    /\ [](fetchError # NoNotice => sessions = <<>>)
    /\ [][\A i \in 1..Len(fetches) :
            FetchSettles(i) => ~loading' /\ ~fetchingRef']_vars

\* a first fetch resolved and the second one failed
C29_Witness ==
    /\ Len(fetches) = 2
    /\ fetches[1] = "ok"
    /\ fetches[2] = "failed"
    /\ fetchError = DefaultFetchNotice
    /\ sessions = <<>>
    /\ ~loading
    /\ ~fetchingRef

\* the value stored under key in localStorage item 'healthProfile',
\* "undefined" when the key is absent
StoredField(key) ==
    LET at == {i \in 1..Len(healthProfile) : i % 2 = 1 /\ healthProfile[i] = key}
    IN  IF at = {} THEN "undefined"
        ELSE healthProfile[(CHOOSE i \in at : TRUE) + 1]

\* C30: from the default profile, neither the profile nor the stored
\* profile ever has pregnancy true together with sex 'male'; choosing a sex
\* other than 'female' resets pregnancy, and pregnancy cannot be changed
\* while sex is 'male'
C30_NoPregnantMale ==
    /\ [](~(profile.pregnancy /\ profile.sex = "male"))
    /\ [](~(StoredField("pregnancy") = "true" /\ StoredField("sex") = "male"))
    /\ [][(profile'.sex # profile.sex /\ profile'.sex # "female")
            => ~profile'.pregnancy]_vars
    /\ [][(profile.sex = "male" /\ profile'.sex = "male")
            => profile'.pregnancy = profile.pregnancy]_vars

\* sex 'male' was chosen in the form and stored
C30_Witness ==
    /\ showProfile
    /\ profile.sex = "male"
    /\ ~profile.pregnancy
    /\ StoredField("sex") = "male"
    /\ StoredField("pregnancy") = "false"

====
